---- MODULE Spec2Model ----
(***************************************************************************)
(* A model of the graphio ontology SDK core:                               *)
(*   - the edit session (graphio_sdk/edits.py): EditableObject,            *)
(*     ObjectTypeEditor.create / edit, OntologyEditsBuilder.get_edits /    *)
(*     commit;                                                             *)
(*   - the query builder (graphio_sdk/query.py, operators.py):             *)
(*     ObjectSetQuery select / where / limit / execute / count / first,    *)
(*     Condition.to_dict and the PropertyDescriptor comparison helpers;    *)
(*   - the type registry (graphio_sdk/ontology.py): OntologyNamespace      *)
(*     register_object_type, add_property, load_object_type,               *)
(*     get_object_type, list_object_types, clear_cache, run by threads.    *)
(* Python objects live in heaps addressed by reference (a sequence index), *)
(* so that aliasing between the caller's mappings and the staged entries   *)
(* is what the code makes it.                                              *)
(***************************************************************************)
EXTENDS Integers, Sequences, FiniteSets, TLC

VARIABLES
    \* ---- edit session ----
    dicts,        \* heap of property mappings (python dicts), by reference
    callerDicts,  \* references of the mappings the caller built itself
    objs,         \* heap of EditableObject: [object_type_id, element_id, props]
    creates,      \* OntologyEditsBuilder._creates: sequence of objs references
    updates,      \* OntologyEditsBuilder._updates: sequence of objs references
    wire,         \* transport calls issued by the last commit(), in order
    results,      \* keys of the record the last commit() returned
    err,          \* how the last call ended: "none", "ValueError", "TransportError"
    lastOp,       \* the last call made on the session
    lastArg,      \* the input descriptor of the last create()/edit()
    edits_out,    \* what the last get_edits() returned
    \* ---- type registry ----
    object_types, \* OntologyNamespace._object_types: name -> handle (0: absent)
    id_to_name,   \* OntologyNamespace._object_type_id_to_name: id -> name
    objects_ns,   \* the objects namespace: name -> handle (0: absent)
    handles,      \* heap of the classes register_object_type built
    cache_lock,   \* OntologyNamespace._cache_lock: the thread holding it
    th,           \* per thread: where it is in its call, and the call's locals
    ret,          \* per thread: how its last call ended
    calls,        \* number of calls started so far
    \* ---- query builder ----
    query,        \* ObjectSetQuery: [select_fields, select_all, conditions, limit_value]
    type_props,   \* object_type_class._properties: the type handle's field list
    sent,         \* descriptors handed to _execute_select by the last call
    qout,         \* how the last call on the builder ended
    hist,         \* the arguments select() and where() were called with so far
    built         \* the last comparison built through a field helper

editVars == <<dicts, callerDicts, objs, creates, updates, wire, results, err,
              lastOp, lastArg, edits_out>>

regVars == <<object_types, id_to_name, objects_ns, handles, cache_lock, th, ret,
             calls>>

queryVars == <<query, type_props, sent, qout, hist, built>>

vars == <<editVars, regVars, queryVars>>

-----------------------------------------------------------------------------
(* Bounds of the edit-session model *)

MaxObjs == 2
MaxDicts == 2

Keys == {"k1"}
Vals == {1, 2}
TypeIds == {"T1"}

None == "None"
ElemVals == {None, "", "e1"}

\* python truthiness of an element id (None and "" are falsy)
Truthy(e) == e \notin {None, ""}

\* all mappings from some of the Keys to Vals
DictVals == UNION {[S -> Vals] : S \in SUBSET Keys}

\* the mappings the caller builds
CallerDictVals == {d \in DictVals : \A k \in DOMAIN d : d[k] = 1}

EmptyDict == [k \in {} |-> 1]

\* keyword arguments given to create()
KwargsSet == {EmptyDict} \cup {[k \in {"k1"} |-> 2]}

\* dict.update(other)
DictUpdate(d, other) ==
    [k \in (DOMAIN d) \cup (DOMAIN other) |->
        IF k \in DOMAIN other THEN other[k] ELSE d[k]]

\* what is remembered of the input of the last create()/edit(): its shape and
\* the element id it carries (hasElem: whether it carries one at all)
NoArg == [shape |-> "none", hasElem |-> FALSE, elem |-> None]

\* the inputs a caller can hand to create()/edit():
\*   raw     a mapping without the keys "properties"/"elementId" (ref: its dict)
\*   nested  a mapping with "properties" and/or "elementId" (ref: the inner dict)
\*   staged  an EditableObject (ref: its objs reference)
\*   other   anything else
Inputs ==
         {[shape |-> "raw", hasElem |-> FALSE, elem |-> None,
           hasProps |-> FALSE, ref |-> d] : d \in callerDicts}
    \cup {[shape |-> "nested", hasElem |-> TRUE, elem |-> e,
           hasProps |-> TRUE, ref |-> d] : e \in ElemVals, d \in callerDicts}
    \cup {[shape |-> "nested", hasElem |-> FALSE, elem |-> None,
           hasProps |-> TRUE, ref |-> d] : d \in callerDicts}
    \cup {[shape |-> "nested", hasElem |-> TRUE, elem |-> e,
           hasProps |-> FALSE, ref |-> 0] : e \in ElemVals}
    \cup {[shape |-> "staged", hasElem |-> TRUE, elem |-> objs[o].element_id,
           hasProps |-> FALSE, ref |-> o] : o \in 1..Len(objs)}
    \cup {[shape |-> "other", hasElem |-> FALSE, elem |-> None,
           hasProps |-> FALSE, ref |-> 0]}

-----------------------------------------------------------------------------
(* EditableObject *)

\* EditableObject.to_message
to_message(o) ==
    IF Truthy(objs[o].element_id)
    THEN [objectTypeId |-> objs[o].object_type_id,
          properties |-> dicts[objs[o].props],
          elementId |-> objs[o].element_id]
    ELSE [objectTypeId |-> objs[o].object_type_id,
          properties |-> dicts[objs[o].props]]

Messages(buf) == [i \in 1..Len(buf) |-> to_message(buf[i])]

\* (mutant) get_edits walks the updates first
get_edits_value_UpdatesFirst == Messages(updates) \o Messages(creates)

\* OntologyEditsBuilder.get_edits: the value it returns
get_edits_value == Messages(creates) \o Messages(updates)

\* new_object.get("elementId") / new_object.element_id
InputElementId(in) ==
    CASE in.shape = "staged" -> objs[in.ref].element_id
      [] in.hasElem -> in.elem
      [] OTHER -> None

ArgOf(in) == [shape |-> in.shape, hasElem |-> in.hasElem, elem |-> in.elem]

-----------------------------------------------------------------------------
(* Operations of the edit session *)

EditInit ==
    /\ dicts = <<>>
    /\ callerDicts = {}
    /\ objs = <<>>
    /\ creates = <<>>
    /\ updates = <<>>
    /\ wire = <<>>
    /\ results = {}
    /\ err = "none"
    /\ lastOp = "init"
    /\ lastArg = NoArg
    /\ edits_out = <<>>

\* a call that is neither commit() nor get_edits() leaves no transport call
\* and no returned record or edit list behind
NoOutput ==
    /\ wire' = <<>>
    /\ results' = {}
    /\ edits_out' = <<>>

\* the caller builds a mapping of its own
NewDict(d) ==
    /\ Len(dicts) < MaxDicts
    /\ dicts' = Append(dicts, d)
    /\ callerDicts' = callerDicts \cup {Len(dicts) + 1}
    /\ lastOp' = "new_dict"
    /\ lastArg' = NoArg
    /\ err' = "none"
    /\ NoOutput
    /\ UNCHANGED <<objs, creates, updates>>

\* EditableObject.__init__ keeps the mapping it is given unless it is empty,
\* and then takes a new empty one.  Heap after allocation and the reference kept.
InitPropsHeap(heap, ref) ==
    IF DOMAIN heap[ref] = {} THEN Append(heap, EmptyDict) ELSE heap
InitPropsRef(heap, ref) ==
    IF DOMAIN heap[ref] = {} THEN Len(heap) + 1 ELSE ref

\* the part of create()/edit() that raises without touching the session
Rejected(op, in) ==
    /\ lastOp' = op
    /\ lastArg' = ArgOf(in)
    /\ err' = "ValueError"
    /\ NoOutput
    /\ UNCHANGED <<dicts, callerDicts, objs, creates, updates>>

\* the element id create() gives the staged object
CreateElementId(in) == InputElementId(in)

\* ObjectTypeEditor.create(new_object, **kwargs) on the editor of type tid
create(tid, in, kwargs) ==
    /\ Len(objs) < MaxObjs
    /\ IF in.shape = "other"
       THEN Rejected("create", in)
       ELSE
         LET \* `properties` is a mapping of the caller's (the raw mapping itself,
             \* or the one under "properties"), updated in place with kwargs ...
             callers == in.shape = "raw" \/ (in.shape = "nested" /\ in.hasProps)
             heap1 == [dicts EXCEPT ![in.ref] = DictUpdate(@, kwargs)]
             \* ... or a new one: get_properties()'s copy (kwargs are not
             \* applied to it), or the default {} updated with kwargs.  An empty
             \* new mapping is dropped for EditableObject's own new {}: one
             \* allocation stands for both
             fresh == IF in.shape = "staged"
                      THEN dicts[objs[in.ref].props]
                      ELSE DictUpdate(EmptyDict, kwargs)
             heap2 == IF callers THEN InitPropsHeap(heap1, in.ref)
                      ELSE Append(dicts, fresh)
             ref2 == IF callers THEN InitPropsRef(heap1, in.ref)
                     ELSE Len(dicts) + 1
             obj == [object_type_id |-> tid,
                     element_id |-> CreateElementId(in),
                     props |-> ref2]
         IN /\ Len(heap2) <= MaxDicts
            /\ dicts' = heap2
            /\ objs' = Append(objs, obj)
            /\ creates' = Append(creates, Len(objs) + 1)
            /\ lastOp' = "create"
            /\ lastArg' = ArgOf(in)
            /\ err' = "none"
            /\ NoOutput
            /\ UNCHANGED <<callerDicts, updates>>

\* (mutant) a test for None alone lets the empty element id through
EditAccepts_NotNone(element_id) == element_id # None

\* the test edit() makes on the element id before staging
EditAccepts(element_id) == Truthy(element_id)

\* ObjectTypeEditor.edit(existing_object) on the editor of type tid
edit(tid, in) ==
    /\ Len(objs) < MaxObjs
    /\ IF in.shape = "other" \/ ~EditAccepts(InputElementId(in))
       THEN Rejected("edit", in)
       ELSE
         LET \* `properties` is the caller's mapping under "properties", or a new
             \* one: get_properties()'s copy, or the default {} (a mapping
             \* without "properties" is edited with no properties at all)
             callers == in.shape # "staged" /\ in.hasProps
             fresh == IF in.shape = "staged"
                      THEN dicts[objs[in.ref].props]
                      ELSE EmptyDict
             heap2 == IF callers THEN InitPropsHeap(dicts, in.ref)
                      ELSE Append(dicts, fresh)
             ref2 == IF callers THEN InitPropsRef(dicts, in.ref)
                     ELSE Len(dicts) + 1
             obj == [object_type_id |-> tid,
                     element_id |-> InputElementId(in),
                     props |-> ref2]
         IN /\ Len(heap2) <= MaxDicts
            /\ dicts' = heap2
            /\ objs' = Append(objs, obj)
            /\ updates' = Append(updates, Len(objs) + 1)
            /\ lastOp' = "edit"
            /\ lastArg' = ArgOf(in)
            /\ err' = "none"
            /\ NoOutput
            /\ UNCHANGED <<callerDicts, creates>>

\* (mutant) the assignment lands in the instance's own attributes
SetProperty_Dropped(d, k, v) == d

\* `self._properties[name] = value`
SetProperty(d, k, v) == DictUpdate(d, [x \in {k} |-> v])

\* EditableObject.__setattr__ for a property name: obj.k = v
setattr(o, k, v) ==
    /\ dicts' = [dicts EXCEPT ![objs[o].props] = SetProperty(@, k, v)]
    /\ lastOp' = "setattr"
    /\ lastArg' = NoArg
    /\ err' = "none"
    /\ NoOutput
    /\ UNCHANGED <<callerDicts, objs, creates, updates>>

\* OntologyEditsBuilder.get_edits
get_edits ==
    /\ edits_out' = get_edits_value
    /\ lastOp' = "get_edits"
    /\ lastArg' = NoArg
    /\ err' = "none"
    /\ wire' = <<>>
    /\ results' = {}
    /\ UNCHANGED <<dicts, callerDicts, objs, creates, updates>>

\* (mutant) commit() forgets to clear the updates
CommitClearedUpdates_Kept == updates

\* the buffers commit() leaves behind when it returns
CommitClearedCreates == <<>>
CommitClearedUpdates == <<>>

\* (mutant) the buffers are cleared in a finally block
CommitRaisedBuffer_Cleared(buf) == <<>>

\* a buffer after commit() raised: the exception leaves commit() before the
\* two clear() calls
CommitRaisedBuffer(buf) == buf

\* (mutant) the creates the server accepted are taken off the buffer
CommitRaisedCreates_Unsent(buf, accepted) ==
    IF accepted THEN <<>> ELSE CommitRaisedBuffer(buf)

\* the creates buffer after commit() raised, the create call having been
\* accepted or not: nothing between lines 201 and 208 touches it
CommitRaisedCreates(buf, accepted) == CommitRaisedBuffer(buf)

\* (mutant) commit() submits a kind whether or not anything is staged
Submitted_Always(buf) == TRUE

\* `if self._creates:` / `if self._updates:`: an empty buffer is not submitted
Submitted(buf) == buf # <<>>

\* OntologyEditsBuilder.commit; createOk/updateOk: whether the transport's
\* _execute_create/_execute_update returns (TRUE) or raises (FALSE)
commit(createOk, updateOk) ==
    LET cAttempt == [kind |-> "create", messages |-> Messages(creates),
                     ok |-> createOk]
        uAttempt == [kind |-> "update", messages |-> Messages(updates),
                     ok |-> updateOk]
        cSent == Submitted(creates)
        cRaised == cSent /\ ~createOk
        uSent == ~cRaised /\ Submitted(updates)
        uRaised == uSent /\ ~updateOk
    IN /\ lastOp' = "commit"
       /\ lastArg' = NoArg
       /\ wire' = (IF cSent THEN <<cAttempt>> ELSE <<>>)
                  \o (IF uSent THEN <<uAttempt>> ELSE <<>>)
       /\ IF cRaised \/ uRaised
          THEN /\ err' = "TransportError"
               /\ results' = {}
               /\ creates' = CommitRaisedCreates(creates, cSent /\ createOk)
               /\ updates' = CommitRaisedBuffer(updates)
          ELSE /\ err' = "none"
               /\ results' = (IF cSent THEN {"creates"} ELSE {})
                             \cup (IF uSent THEN {"updates"} ELSE {})
               /\ creates' = CommitClearedCreates
               /\ updates' = CommitClearedUpdates
       /\ edits_out' = <<>>
       /\ UNCHANGED <<dicts, callerDicts, objs>>

CallNewDict == \E d \in CallerDictVals : NewDict(d)
CallCreate == \E tid \in TypeIds, in \in Inputs, kw \in KwargsSet : create(tid, in, kw)
CallEdit == \E tid \in TypeIds, in \in Inputs : edit(tid, in)
CallSetattr == \E o \in 1..Len(objs), k \in Keys, v \in Vals : setattr(o, k, v)
CallCommit == \E createOk \in BOOLEAN, updateOk \in BOOLEAN : commit(createOk, updateOk)

EditNext ==
    \/ CallNewDict /\ UNCHANGED <<regVars, queryVars>>
    \/ CallCreate /\ UNCHANGED <<regVars, queryVars>>
    \/ CallEdit /\ UNCHANGED <<regVars, queryVars>>
    \/ CallSetattr /\ UNCHANGED <<regVars, queryVars>>
    \/ get_edits /\ UNCHANGED <<regVars, queryVars>>
    \/ CallCommit /\ UNCHANGED <<regVars, queryVars>>

-----------------------------------------------------------------------------
(* The type registry: OntologyNamespace, called from several threads.  A step
   is one access to a shared map, one remote call, or one lock operation. *)

MaxCalls == 2

Threads == {"t1", "t2"}
NoThread == "none"
Names == {"A", "B"}
Ids == {"i1", "i2"}

\* what the server may return for one object type: id or name may be missing
Candidates == [id : Ids \cup {None}, name : Names \cup {None}]

\* results of _fetch_object_types(name=...): a list of candidates
NameResponses ==
    {<<>>} \cup {<<c>> : c \in Candidates}
           \cup {<<c, d>> : c \in Candidates, d \in Candidates}

\* property lists register_object_type is given by its caller
PropLists == {<<>>, <<"p1">>}
\* property lists _fetch_object_type_properties returns
FetchedPropLists == {<<"p1">>}
AddedProps == {"p2"}

IdleTh == [pc |-> "idle", op |-> "none", name |-> None, oid |-> None,
           props |-> <<>>, cls |-> 0, cached |-> None, inTry |-> FALSE,
           reqName |-> None, reqId |-> None, fetched |-> None,
           exact |-> FALSE]

NoRet == [op |-> "none", name |-> None, oid |-> None, res |-> 0,
          exc |-> "none", fail |-> "none", fetched |-> None, names |-> {},
          exact |-> FALSE]

EmptyRegistry ==
    [object_types |-> [n \in Names |-> 0],
     id_to_name |-> [i \in Ids |-> None],
     handles |-> <<>>]

\* the registry after one more complete call
\* register_object_type(name, object_type_id, properties) (lines 42-66)
Registered(reg, name, oid, props) ==
    IF reg.object_types[name] # 0
    THEN reg
    ELSE [object_types |->
             [reg.object_types EXCEPT ![name] = Len(reg.handles) + 1],
          id_to_name |-> [reg.id_to_name EXCEPT ![oid] = name],
          handles |-> Append(reg.handles,
                             [id |-> oid, name |-> name, props |-> props])]

\* the registrations made, one after the other, before the threads start
InitialRegistrations ==
    { <<>>,
      << <<"A", "i1", <<"p1">> >> >>,
      << <<"A", "i1", <<"p1">> >>, <<"B", "i2", <<>> >> >>,
      << <<"A", "i1", <<"p1">> >>, <<"B", "i1", <<>> >> >> }

RECURSIVE RegisteredAll(_, _)
RegisteredAll(reg, regs) ==
    IF regs = <<>>
    THEN reg
    ELSE RegisteredAll(Registered(reg, regs[1][1], regs[1][2], regs[1][3]),
                       Tail(regs))

RegInitAfter(regs) ==
    /\ LET reg == RegisteredAll(EmptyRegistry, regs)
       IN /\ object_types = reg.object_types
          /\ id_to_name = reg.id_to_name
          /\ objects_ns = reg.object_types
          /\ handles = reg.handles
    /\ cache_lock = NoThread
    /\ th = [t \in Threads |-> IdleTh]
    /\ ret = [t \in Threads |-> NoRet]
    /\ calls = 0

RegInit == \E regs \in InitialRegistrations : RegInitAfter(regs)

\* a thread can start a call
CanCall(t) == th[t].pc = "idle" /\ calls < MaxCalls

\* the frame of a call that starts: op with its arguments
Frame(op, name, oid, props) ==
    [IdleTh EXCEPT !.op = op, !.name = name, !.oid = oid, !.props = props,
                   !.reqName = name, !.reqId = oid]

\* thread t goes on in frame cur at pc
Goto(t, cur, pc) ==
    /\ th' = [th EXCEPT ![t] = [cur EXCEPT !.pc = pc]]
    /\ ret' = [ret EXCEPT ![t] = NoRet]

\* the call of thread t, in frame cur, ends
Done(t, cur, res, exc, fail, names) ==
    /\ th' = [th EXCEPT ![t] = IdleTh]
    /\ ret' = [ret EXCEPT ![t] =
                 [op |-> cur.op, name |-> cur.reqName, oid |-> cur.reqId,
                  res |-> res, exc |-> exc, fail |-> fail,
                  fetched |-> cur.fetched, names |-> names,
                  exact |-> cur.exact]]

Return(t, cur, res) == Done(t, cur, res, "none", "none", {})

\* (mutant) get_object_type catches ValueError alone
Caught_ValueErrorOnly(exc) == exc = "ValueError"

\* get_object_type: `except Exception` catches whatever load_object_type raises
Caught(exc) == TRUE

\* an exception raised in frame cur: inside get_object_type's try block it
\* becomes the return value None
Raise(t, cur, exc, fail) ==
    IF cur.inTry /\ Caught(exc)
    THEN Done(t, cur, 0, "none", fail, {})
    ELSE Done(t, cur, 0, exc, fail, {})

StartCall == calls' = calls + 1
SameCalls == calls' = calls
SameMaps == UNCHANGED <<object_types, id_to_name, objects_ns, handles>>
SameRegistry == UNCHANGED <<object_types, id_to_name, objects_ns, handles, cache_lock>>

(* ---- get_object_type ---- *)

\* line 139: `if name in self._object_types`
GetTest(t, name) ==
    /\ CanCall(t)
    /\ StartCall
    /\ SameRegistry
    /\ LET cur == Frame("get", name, None, <<>>)
       IN IF object_types[name] # 0
          THEN Goto(t, cur, "get_lookup")
          ELSE Goto(t, [cur EXCEPT !.inTry = TRUE], "load_name")

\* line 140: `return self._object_types[name]`
GetLookup(t) ==
    /\ th[t].pc = "get_lookup"
    /\ SameCalls
    /\ SameRegistry
    /\ IF object_types[th[t].name] # 0
       THEN Return(t, th[t], object_types[th[t].name])
       ELSE Raise(t, th[t], "KeyError", "none")

(* ---- load_object_type ---- *)

\* line 93: `if name and name in self._object_types`, then the way to line 97
LoadNameTestIn(t, cur) ==
    IF cur.name # None /\ object_types[cur.name] # 0
    THEN Goto(t, cur, "load_name_lookup")
    ELSE IF cur.oid # None
         THEN Goto(t, cur, "load_id")
         ELSE Goto(t, cur, "load_fetch")

LoadStart(t, oid, name) ==
    /\ CanCall(t)
    /\ StartCall
    /\ SameRegistry
    /\ LoadNameTestIn(t, Frame("load", name, oid, <<>>))

LoadNameTest(t) ==
    /\ th[t].pc = "load_name"
    /\ SameCalls
    /\ SameRegistry
    /\ LoadNameTestIn(t, th[t])

\* line 94: `return self._object_types[name]`
LoadNameLookup(t) ==
    /\ th[t].pc = "load_name_lookup"
    /\ SameCalls
    /\ SameRegistry
    /\ IF object_types[th[t].name] # 0
       THEN Return(t, th[t], object_types[th[t].name])
       ELSE Raise(t, th[t], "KeyError", "none")

\* line 97: `if object_type_id and object_type_id in self._object_type_id_to_name`
LoadIdTest(t) ==
    /\ th[t].pc = "load_id"
    /\ SameCalls
    /\ SameRegistry
    /\ IF id_to_name[th[t].oid] # None
       THEN Goto(t, th[t], "load_id_name")
       ELSE Goto(t, th[t], "load_fetch")

\* line 98: `cached_name = self._object_type_id_to_name[object_type_id]`
LoadIdName(t) ==
    /\ th[t].pc = "load_id_name"
    /\ SameCalls
    /\ SameRegistry
    /\ IF id_to_name[th[t].oid] # None
       THEN Goto(t, [th[t] EXCEPT !.cached = id_to_name[th[t].oid]],
                 "load_id_lookup")
       ELSE Raise(t, th[t], "KeyError", "none")

\* line 99: `return self._object_types[cached_name]`
LoadIdLookup(t) ==
    /\ th[t].pc = "load_id_lookup"
    /\ SameCalls
    /\ SameRegistry
    /\ IF object_types[th[t].cached] # 0
       THEN Return(t, th[t], object_types[th[t].cached])
       ELSE Raise(t, th[t], "KeyError", "none")

\* the candidate load_object_type takes from the results of the name search
ChosenCandidate(name, found) == found[1]

\* the results of the name search hold a usable candidate of that very name
HasExactMatch(name, found) ==
    \E i \in 1..Len(found) : found[i].name = name /\ found[i].id # None

\* lines 113-117: id and name of the fetched data, both required
LoadValidate(t, cur, ot_data) ==
    IF ot_data.id = None \/ ot_data.name = None
    THEN Raise(t, cur, "ValueError", "invalid")
    ELSE Goto(t, [cur EXCEPT !.oid = ot_data.id, !.name = ot_data.name,
                             !.fetched = ot_data.name], "load_props")

\* lines 102-117: the remote lookup, by id or by name
LoadFetch(t) ==
    /\ th[t].pc = "load_fetch"
    /\ SameCalls
    /\ SameRegistry
    /\ LET cur == th[t]
       IN IF cur.oid # None
          THEN \/ Raise(t, cur, "Exception", "transport")
               \/ \E ot_data \in Candidates : LoadValidate(t, cur, ot_data)
          ELSE IF cur.name # None
               THEN \/ Raise(t, cur, "Exception", "transport")
                    \/ \E found \in NameResponses :
                         IF found = <<>>
                         THEN Raise(t, cur, "ValueError", "empty")
                         ELSE LoadValidate(
                                  t,
                                  [cur EXCEPT !.exact =
                                       HasExactMatch(cur.name, found)],
                                  ChosenCandidate(cur.name, found))
               ELSE Raise(t, cur, "ValueError", "noargs")

\* lines 120-121: the remote fetch of the property list
LoadProps(t) ==
    /\ th[t].pc = "load_props"
    /\ SameCalls
    /\ SameRegistry
    /\ \/ Raise(t, th[t], "Exception", "props")
       \/ \E props \in FetchedPropLists :
            Goto(t, [th[t] EXCEPT !.props = props], "reg_lock")

(* ---- register_object_type ---- *)

\* (mutant) the lock is never waited for
LockFree_Always == TRUE

\* `with self._cache_lock` can be entered
LockFree == cache_lock = NoThread

\* (mutant) the registration never looks for an earlier one
RegisterPresent_Never(name) == FALSE

\* line 44: `if name in self._object_types`
RegisterPresent(name) == object_types[name] # 0

\* lines 42-45: take the lock, return the class already registered if any
RegLockIn(t, cur) ==
    /\ LockFree
    /\ IF RegisterPresent(cur.name)
       THEN /\ Return(t, cur, object_types[cur.name])
            /\ SameRegistry
       ELSE /\ cache_lock' = t
            /\ Goto(t, cur, "reg_insert")
            /\ SameMaps

RegStart(t, name, oid, props) ==
    /\ CanCall(t)
    /\ StartCall
    /\ RegLockIn(t, Frame("register", name, oid, props))

RegLock(t) ==
    /\ th[t].pc = "reg_lock"
    /\ SameCalls
    /\ RegLockIn(t, th[t])

\* lines 48-60: build the class, `self._object_types[name] = cls`
RegInsert(t) ==
    /\ th[t].pc = "reg_insert"
    /\ SameCalls
    /\ handles' = Append(handles, [id |-> th[t].oid, name |-> th[t].name,
                                   props |-> th[t].props])
    /\ object_types' = [object_types EXCEPT ![th[t].name] = Len(handles) + 1]
    /\ Goto(t, [th[t] EXCEPT !.cls = Len(handles) + 1], "reg_id")
    /\ UNCHANGED <<id_to_name, objects_ns, cache_lock>>

\* lines 61-66: `self._object_type_id_to_name[object_type_id] = name`, the
\* objects namespace, the lock released, the class returned
RegId(t) ==
    /\ th[t].pc = "reg_id"
    /\ SameCalls
    /\ id_to_name' = [id_to_name EXCEPT ![th[t].oid] = th[t].name]
    /\ objects_ns' = [objects_ns EXCEPT ![th[t].name] = th[t].cls]
    /\ cache_lock' = NoThread
    /\ Return(t, th[t], th[t].cls)
    /\ UNCHANGED <<object_types, handles>>

(* ---- add_property ---- *)

\* line 70: `if object_type_name not in self._object_types`
AddTest(t, name, prop) ==
    /\ CanCall(t)
    /\ StartCall
    /\ SameRegistry
    /\ LET cur == Frame("add_property", name, None, <<prop>>)
       IN IF object_types[name] = 0
          THEN Raise(t, cur, "ValueError", "none")
          ELSE Goto(t, cur, "add_lookup")

\* line 73: `cls = self._object_types[object_type_name]`
AddLookup(t) ==
    /\ th[t].pc = "add_lookup"
    /\ SameCalls
    /\ SameRegistry
    /\ IF object_types[th[t].name] # 0
       THEN Goto(t, [th[t] EXCEPT !.cls = object_types[th[t].name]],
                 "add_append")
       ELSE Raise(t, th[t], "KeyError", "none")

\* lines 74-75: `cls._properties.append(property_name)`
AddAppend(t) ==
    /\ th[t].pc = "add_append"
    /\ SameCalls
    /\ handles' = [handles EXCEPT ![th[t].cls].props = @ \o th[t].props]
    /\ Return(t, th[t], 0)
    /\ UNCHANGED <<object_types, id_to_name, objects_ns, cache_lock>>

(* ---- list_object_types ---- *)

\* line 156: `list(self._object_types.keys())`
List(t) ==
    /\ CanCall(t)
    /\ StartCall
    /\ SameRegistry
    /\ Done(t, Frame("list", None, None, <<>>), 0, "none", "none",
            {n \in Names : object_types[n] # 0})

(* ---- clear_cache ---- *)

\* (mutant) clear_cache leaves the id index as it is
ClearedIdToName_Kept == id_to_name

\* the id index after line 162
ClearedIdToName == [i \in Ids |-> None]

\* lines 160-161: take the lock, `self._object_types.clear()`
Clear1(t) ==
    /\ CanCall(t)
    /\ StartCall
    /\ LockFree
    /\ cache_lock' = t
    /\ object_types' = [n \in Names |-> 0]
    /\ Goto(t, Frame("clear", None, None, <<>>), "clear_id")
    /\ UNCHANGED <<id_to_name, objects_ns, handles>>

\* lines 162-163: `self._object_type_id_to_name.clear()`, a new objects
\* namespace, the lock released
Clear2(t) ==
    /\ th[t].pc = "clear_id"
    /\ SameCalls
    /\ id_to_name' = ClearedIdToName
    /\ objects_ns' = [n \in Names |-> 0]
    /\ cache_lock' = NoThread
    /\ Return(t, th[t], 0)
    /\ UNCHANGED <<object_types, handles>>

CallGet == \E t \in Threads, name \in Names : GetTest(t, name)
CallLoad ==
    \E t \in Threads, oid \in Ids \cup {None}, name \in Names \cup {None} :
        LoadStart(t, oid, name)
CallRegister ==
    \E t \in Threads, name \in Names, oid \in Ids, props \in PropLists :
        RegStart(t, name, oid, props)
CallAddProperty ==
    \E t \in Threads, name \in Names, prop \in AddedProps : AddTest(t, name, prop)
CallList == \E t \in Threads : List(t)
CallClear == \E t \in Threads : Clear1(t)

ClearStep == \E t \in Threads : Clear2(t)

\* the registry without clear_cache
LoadNext ==
    \/ CallGet /\ UNCHANGED <<editVars, queryVars>>
    \/ CallLoad /\ UNCHANGED <<editVars, queryVars>>
    \/ CallRegister /\ UNCHANGED <<editVars, queryVars>>
    \/ CallAddProperty /\ UNCHANGED <<editVars, queryVars>>
    \/ CallList /\ UNCHANGED <<editVars, queryVars>>
    \/ (\E t \in Threads : GetLookup(t)) /\ UNCHANGED <<editVars, queryVars>>
    \/ (\E t \in Threads : LoadNameTest(t)) /\ UNCHANGED <<editVars, queryVars>>
    \/ (\E t \in Threads : LoadNameLookup(t)) /\ UNCHANGED <<editVars, queryVars>>
    \/ (\E t \in Threads : LoadIdTest(t)) /\ UNCHANGED <<editVars, queryVars>>
    \/ (\E t \in Threads : LoadIdName(t)) /\ UNCHANGED <<editVars, queryVars>>
    \/ (\E t \in Threads : LoadIdLookup(t)) /\ UNCHANGED <<editVars, queryVars>>
    \/ (\E t \in Threads : LoadFetch(t)) /\ UNCHANGED <<editVars, queryVars>>
    \/ (\E t \in Threads : LoadProps(t)) /\ UNCHANGED <<editVars, queryVars>>
    \/ (\E t \in Threads : RegLock(t)) /\ UNCHANGED <<editVars, queryVars>>
    \/ (\E t \in Threads : RegInsert(t)) /\ UNCHANGED <<editVars, queryVars>>
    \/ (\E t \in Threads : RegId(t)) /\ UNCHANGED <<editVars, queryVars>>
    \/ (\E t \in Threads : AddLookup(t)) /\ UNCHANGED <<editVars, queryVars>>
    \/ (\E t \in Threads : AddAppend(t)) /\ UNCHANGED <<editVars, queryVars>>

RegNext ==
    \/ LoadNext
    \/ CallClear /\ UNCHANGED <<editVars, queryVars>>
    \/ ClearStep /\ UNCHANGED <<editVars, queryVars>>

-----------------------------------------------------------------------------
(* The query builder: ObjectSetQuery on one type handle, and the comparisons
   of operators.py.  Python values are written as their literals ("0",
   "False", "[]"; "" is the empty string); an Optional is a sequence, <<>>
   for None and <<v>> for a value v. *)

MaxFields == 2
MaxConds == 2
MaxTypeFields == 2

FieldNames == {"x", "y"}
QueryTypeId == "T1"

\* python truthiness of a value
PyTruthy(v) == v \notin {None, "0", "False", "", "[]"}

Range(seq) == {seq[i] : i \in 1..Len(seq)}

(* ---- operators.py ---- *)

\* QueryOp: member name -> value
QueryOp(member) ==
    CASE member = "EQ" -> "eq"
      [] member = "NE" -> "ne"
      [] member = "GT" -> "gt"
      [] member = "GTE" -> "gte"
      [] member = "LT" -> "lt"
      [] member = "LTE" -> "lte"
      [] member = "LIKE" -> "like"
      [] member = "IN" -> "in"
      [] member = "IS_NULL" -> "is_null"
      [] member = "IS_NOT_NULL" -> "is_not_null"

\* Condition.__init__
Condition(field, op, value) == [field |-> field, op |-> op, value |-> value]

\* (mutant) the value is kept only when it is truthy
ValuePresent_Truthy(v) == PyTruthy(v)

\* `if self.value is not None`
ValuePresent(v) == v # None

\* Condition.to_dict
to_dict(c) ==
    IF ValuePresent(c.value)
    THEN [field |-> c.field, op |-> QueryOp(c.op), value |-> c.value]
    ELSE [field |-> c.field, op |-> QueryOp(c.op)]

\* LogicalCondition("and", conds).to_dict()
and_to_dict(conds) == [and |-> [i \in 1..Len(conds) |-> to_dict(conds[i])]]

\* the comparison helpers of PropertyDescriptor and the QueryOp member each uses
Helpers == {"__eq__", "__ne__", "__gt__", "__ge__", "__lt__", "__le__",
            "like", "is_in", "is_null", "is_not_null"}
NullChecks == {"is_null", "is_not_null"}

HelperOp(h) ==
    CASE h = "__eq__" -> "EQ"
      [] h = "__ne__" -> "NE"
      [] h = "__gt__" -> "GT"
      [] h = "__ge__" -> "GTE"
      [] h = "__lt__" -> "LT"
      [] h = "__le__" -> "LTE"
      [] h = "like" -> "LIKE"
      [] h = "is_in" -> "IN"
      [] h = "is_null" -> "IS_NULL"
      [] h = "is_not_null" -> "IS_NOT_NULL"

\* PropertyDescriptor(field).h(value); the null checks take no value
Helper(field, h, value) ==
    Condition(field, HelperOp(h), IF h \in NullChecks THEN None ELSE value)

\* the values compared with
PyVals == {None, "0", "False", "", "[]", "1", "a"}

NoBuilt == [helper |-> "none", field |-> None, arg |-> None,
            cond |-> Condition(None, "EQ", None),
            dict |-> [field |-> None, op |-> "none"]]

\* a comparison is built through a helper and serialized
Compare(field, h, value) ==
    /\ built' = [helper |-> h, field |-> field,
                 arg |-> IF h \in NullChecks THEN None ELSE value,
                 cond |-> Helper(field, h, value),
                 dict |-> to_dict(Helper(field, h, value))]
    /\ UNCHANGED <<query, type_props, sent, qout, hist>>

CallCompare ==
    \/ \E f \in FieldNames, h \in Helpers \ NullChecks, v \in PyVals :
          Compare(f, h, v)
    \/ \E f \in FieldNames, h \in NullChecks : Compare(f, h, None)

(* ---- query.py ---- *)

\* the predicates the caller passes to where()
P1 == Helper("x", "__eq__", "0")
P2 == Helper("y", "is_null", None)
WhereArgs == {<<>>, <<P1>>, <<P2>>, <<P1, P2>>, <<P2, P1>>}

\* the arguments the caller passes to select()
SelectArgs == {<<>>, <<"*">>, <<"x">>, <<"y">>, <<"x", "y">>, <<"y", "*">>}

\* the arguments the caller passes to limit()
LimitArgs == {"0", "3"}

\* the field lists the type handle may start with
InitialTypeFields == {<<>>, <<"x", "y">>}

\* what _execute_select does: it returns rows, or raises
Responses == {[ok |-> TRUE, rows |-> r] : r \in {<<>>, <<"r1">>, <<"r2", "r1">>}}
             \cup {[ok |-> FALSE, rows |-> <<>>]}

\* ObjectSetQuery.__init__
NewQuery == [select_fields |-> <<>>, select_all |-> FALSE,
             conditions |-> <<>>, limit_value |-> None]

\* got: the rows _execute_select supplied to execute(); rows: what the call
\* returned
NoOut == [op |-> "none", exc |-> "none", rows |-> <<>>, count |-> 0,
          first |-> None, got |-> <<>>]

NoHist == [select |-> <<>>, wildcard |-> FALSE, where |-> <<>>]

QueryInitFor(props) ==
    /\ query = NewQuery
    /\ type_props = props
    /\ sent = <<>>
    /\ qout = NoOut
    /\ hist = NoHist
    /\ built = NoBuilt

QueryInit == \E props \in InitialTypeFields : QueryInitFor(props)

\* a call that executes nothing hands nothing to the transport
NoQueryOutput ==
    /\ sent' = <<>>
    /\ qout' = NoOut

\* (mutant) only the literal wildcard argument selects everything
IsWildcard_StarOnly(fields) == "*" \in Range(fields)

\* `if not fields or "*" in fields`
IsWildcard(fields) == fields = <<>> \/ "*" \in Range(fields)

\* (mutant) select() replaces the field list
SelectExtended_Replaced(old, fields) == fields

\* `self._select_fields.extend(fields)`
SelectExtended(old, fields) == old \o fields

\* the builder after select(*fields)
select_state(q, fields) ==
    IF IsWildcard(fields)
    THEN [q EXCEPT !.select_all = TRUE, !.select_fields = <<>>]
    ELSE [q EXCEPT !.select_all = FALSE,
                   !.select_fields = SelectExtended(@, fields)]

\* ObjectSetQuery.select
select(fields) ==
    /\ Len(hist.select) + Len(fields) <= MaxFields
    /\ query' = select_state(query, fields)
    /\ hist' = IF fields = <<>> \/ "*" \in Range(fields)
               THEN [hist EXCEPT !.wildcard = TRUE]
               ELSE [hist EXCEPT !.select = @ \o fields]
    /\ NoQueryOutput
    /\ UNCHANGED <<type_props, built>>

\* (mutant) where() replaces the predicates
WhereExtended_Replaced(old, conds) == conds

\* `self._conditions.extend(conditions)`
WhereExtended(old, conds) == old \o conds

\* ObjectSetQuery.where
where(conds) ==
    /\ Len(hist.where) + Len(conds) <= MaxConds
    /\ query' = [query EXCEPT !.conditions = WhereExtended(@, conds)]
    /\ hist' = [hist EXCEPT !.where = @ \o conds]
    /\ NoQueryOutput
    /\ UNCHANGED <<type_props, built>>

\* ObjectSetQuery.limit
limit(n) ==
    /\ query' = [query EXCEPT !.limit_value = n]
    /\ NoQueryOutput
    /\ UNCHANGED <<type_props, hist, built>>

\* OntologyNamespace.add_property on the builder's type: the handle's field
\* list grows
TypeAddField(f) ==
    /\ Len(type_props) < MaxTypeFields
    /\ f \notin Range(type_props)
    /\ type_props' = Append(type_props, f)
    /\ NoQueryOutput
    /\ UNCHANGED <<query, hist, built>>

\* ObjectSetQuery._build_where_clause
build_where_clause(q) ==
    IF q.conditions = <<>> THEN <<>>
    ELSE IF Len(q.conditions) = 1 THEN <<to_dict(q.conditions[1])>>
    ELSE <<and_to_dict(q.conditions)>>

\* ObjectSetQuery._get_select_fields
get_select_fields(q) ==
    IF q.select_all
    THEN IF type_props # <<>> THEN type_props ELSE <<>>
    ELSE q.select_fields

\* the descriptor: "where" and "limit" are keys only when truthy
SelectDto(fields, where_clause, limit_value) ==
    [select |-> fields, from |-> QueryTypeId]
    @@ (IF where_clause # <<>> /\ DOMAIN where_clause[1] # {}
        THEN [where |-> where_clause[1]] ELSE EmptyDict)
    @@ (IF PyTruthy(limit_value)
        THEN [limit |-> limit_value] ELSE EmptyDict)

\* (mutant) execute() sends whatever it has
ExecuteRejects_Never(q) == FALSE

\* `if not self._select_all and not select_fields`
ExecuteRejects(q) == ~q.select_all /\ get_select_fields(q) = <<>>

\* the descriptor execute() builds on builder q
ExecuteDto(q) ==
    SelectDto(IF get_select_fields(q) # <<>>
              THEN get_select_fields(q) ELSE <<"*">>,
              build_where_clause(q), q.limit_value)

\* the descriptors execute() hands to the transport on builder q
ExecuteSent(q) == IF ExecuteRejects(q) THEN <<>> ELSE <<ExecuteDto(q)>>

\* the exception execute() ends with on builder q, given the transport's response
ExecuteExc(q, resp) ==
    IF ExecuteRejects(q) THEN "ValueError"
    ELSE IF resp.ok THEN "none" ELSE "Exception"

\* (mutant) execute() hands the rows back in reverse order
ExecuteReturns_Reversed(rows) == [i \in 1..Len(rows) |-> rows[Len(rows) + 1 - i]]

\* `return self.client._execute_select(select_dto)`
ExecuteReturns(rows) == rows

\* ObjectSetQuery.execute
execute(resp) ==
    /\ sent' = ExecuteSent(query)
    /\ qout' = [NoOut EXCEPT !.op = "execute",
                             !.exc = ExecuteExc(query, resp),
                             !.got = IF ExecuteExc(query, resp) = "none"
                                     THEN resp.rows ELSE <<>>,
                             !.rows = IF ExecuteExc(query, resp) = "none"
                                      THEN ExecuteReturns(resp.rows) ELSE <<>>]
    /\ UNCHANGED <<query, type_props, hist, built>>

\* (mutant) count() asks for the type's first field whenever it has one
count_field_TypeFirst(q) ==
    IF type_props # <<>> THEN <<type_props[1]>>
    ELSE IF q.select_fields # <<>> THEN <<q.select_fields[1]>>
    ELSE <<>>

\* the field count() asks for, if any
count_field(q) ==
    IF q.select_fields = <<>> /\ type_props # <<>> THEN <<type_props[1]>>
    ELSE IF q.select_fields # <<>> THEN <<q.select_fields[1]>>
    ELSE <<>>

\* ObjectSetQuery.count
count(resp) ==
    LET temp_field == count_field(query)
        exc == IF temp_field = <<>> THEN "ValueError"
               ELSE IF resp.ok THEN "none" ELSE "Exception"
    IN /\ sent' = IF temp_field = <<>> THEN <<>>
                  ELSE <<SelectDto(temp_field, build_where_clause(query), None)>>
       /\ qout' = [NoOut EXCEPT !.op = "count", !.exc = exc,
                                !.rows = IF exc = "none" THEN resp.rows
                                         ELSE <<>>,
                                !.count = IF exc = "none" THEN Len(resp.rows)
                                          ELSE 0]
       /\ UNCHANGED <<query, type_props, hist, built>>

\* (mutant) the limit is put back only when execute() returns
FirstRestored_OnReturn(original_limit, raised) ==
    IF raised THEN "1" ELSE original_limit

\* `finally: self._limit_value = original_limit`
FirstRestored(original_limit, raised) == original_limit

\* ObjectSetQuery.first
first(resp) ==
    LET original_limit == query.limit_value
        q1 == [query EXCEPT !.limit_value = "1"]
        exc == ExecuteExc(q1, resp)
    IN /\ sent' = ExecuteSent(q1)
       /\ qout' = [NoOut EXCEPT !.op = "first", !.exc = exc,
                                !.first = IF exc = "none" /\ resp.rows # <<>>
                                          THEN resp.rows[1] ELSE None]
       /\ query' = [q1 EXCEPT !.limit_value =
                                 FirstRestored(original_limit, exc # "none")]
       /\ UNCHANGED <<type_props, hist, built>>

CallSelect == \E fields \in SelectArgs : select(fields)
CallWhere == \E conds \in WhereArgs : where(conds)
CallLimit == \E n \in LimitArgs : limit(n)
CallTypeAddField == \E f \in FieldNames : TypeAddField(f)
CallExecute == \E resp \in Responses : execute(resp)
CallCount == \E resp \in Responses : count(resp)
CallFirst == \E resp \in Responses : first(resp)

QueryNext ==
    \/ CallSelect /\ UNCHANGED <<editVars, regVars>>
    \/ CallWhere /\ UNCHANGED <<editVars, regVars>>
    \/ CallLimit /\ UNCHANGED <<editVars, regVars>>
    \/ CallTypeAddField /\ UNCHANGED <<editVars, regVars>>
    \/ CallExecute /\ UNCHANGED <<editVars, regVars>>
    \/ CallCount /\ UNCHANGED <<editVars, regVars>>
    \/ CallFirst /\ UNCHANGED <<editVars, regVars>>

ConditionNext == CallCompare /\ UNCHANGED <<editVars, regVars>>

-----------------------------------------------------------------------------
(* Specifications *)

\* an edit session beside a registry and a builder nobody touches
InitEdits == EditInit /\ RegInitAfter(<<>>) /\ QueryInitFor(<<>>)
\* a registry, some types registered, beside an edit session and a builder
\* nobody touches
Init == EditInit /\ RegInit /\ QueryInitFor(<<>>)
\* a new builder on a type handle, beside an edit session and a registry
\* nobody touches
InitQuery == EditInit /\ RegInitAfter(<<>>) /\ QueryInit

SpecEdits == InitEdits /\ [][EditNext]_vars

SpecRegistry == Init /\ [][RegNext]_vars

SpecLoads == Init /\ [][LoadNext]_vars

SpecQuery == InitQuery /\ [][QueryNext]_vars

SpecConditions == InitEdits /\ [][ConditionNext]_vars

-----------------------------------------------------------------------------
(* Properties of the query builder *)

\* C14: execute() on a builder in explicit-field mode with no field (select()
\* never called included) raises the usage error and hands nothing to the
\* transport.
C14_ExecuteNeedsFields ==
    [][(qout'.op = "execute" /\ ~query.select_all /\ query.select_fields = <<>>)
          => (qout'.exc = "ValueError" /\ sent' = <<>>)]_vars

C14_Witness ==
    /\ qout.op = "execute"
    /\ qout.exc = "ValueError"
    /\ sent = <<>>
    /\ hist.select = <<>>
    /\ ~hist.wildcard
    /\ type_props # <<>>
    /\ query.conditions # <<>>

\* C15: first() executes at most once, with limit 1 in the descriptor, and
\* leaves the builder as it found it, its limit included, whether the
\* execution returns or raises.
C15_FirstRestoresLimit ==
    [][qout'.op = "first" =>
         /\ query' = query
         /\ Len(sent') <= 1
         /\ \A i \in 1..Len(sent') :
               "limit" \in DOMAIN sent'[i] /\ sent'[i].limit = "1"
         /\ qout'.exc # "ValueError" => Len(sent') = 1]_vars

C15_Witness ==
    /\ qout.op = "first"
    /\ qout.exc = "Exception"
    /\ sent # <<>>
    /\ query.limit_value = "3"
    /\ query.select_fields # <<>>
    /\ query.conditions # <<>>

\* C16: the where clause execute() sends is a function of the predicates
\* passed to the where() calls, in call order: none, no "where" key; one, its
\* serialization; more, {and: [...]} of their serializations in that order.
C16_WhereAccumulates ==
    [][(qout'.op \in {"execute", "first"} /\ sent' # <<>>) =>
         LET d == sent'[1]
             w == hist.where
         IN /\ w = <<>> => "where" \notin DOMAIN d
            /\ Len(w) = 1 => ("where" \in DOMAIN d /\ d.where = to_dict(w[1]))
            /\ Len(w) >= 2 =>
                  /\ "where" \in DOMAIN d
                  /\ DOMAIN d.where = {"and"}
                  /\ Len(d.where.and) = Len(w)
                  /\ \A i \in 1..Len(w) : d.where.and[i] = to_dict(w[i])]_vars

C16_Witness ==
    /\ qout.op = "execute"
    /\ hist.where = <<P2, P1>>
    /\ sent # <<>>
    /\ sent[1].where = [and |-> <<to_dict(P2), to_dict(P1)>>]

\* C17: select() and select("*") put the builder in the same, select-all,
\* state; execute() on a select-all builder sends the type's field list as it
\* is then, or ["*"] when the type has none.
C17_WildcardSelect ==
    [][/\ select_state(query, <<>>) = select_state(query, <<"*">>)
       /\ select_state(query, <<>>).select_all
       /\ (qout'.op = "execute" /\ query.select_all) =>
             /\ qout'.exc # "ValueError"
             /\ Len(sent') = 1
             /\ sent'[1].select = IF type_props # <<>> THEN type_props
                                  ELSE <<"*">>]_vars

C17_Witness ==
    /\ qout.op = "execute"
    /\ query.select_all
    /\ hist.select # <<>>
    /\ type_props = <<"y", "x">>
    /\ sent # <<>>
    /\ sent[1].select = <<"y", "x">>

\* C18: when every select() call named concrete fields, execute() sends as
\* the select list the names of all the calls, in call order.
C18_SelectAccumulates ==
    [][(qout'.op = "execute" /\ ~hist.wildcard /\ hist.select # <<>>) =>
          /\ Len(sent') = 1
          /\ sent'[1].select = hist.select]_vars

C18_Witness ==
    /\ qout.op = "execute"
    /\ ~hist.wildcard
    /\ hist.select = <<"y", "x">>
    /\ sent # <<>>
    /\ sent[1].select = <<"y", "x">>

\* C19: count() asks the transport once, for one field: the builder's first
\* selected field, else the type's first field, and returns the number of
\* rows it got; with neither it raises the usage error and asks nothing.
C19_CountAsksOneField ==
    [][qout'.op = "count" =>
         LET wanted == IF query.select_fields # <<>>
                       THEN <<query.select_fields[1]>>
                       ELSE IF type_props # <<>> THEN <<type_props[1]>>
                       ELSE <<>>
         IN IF wanted = <<>>
            THEN qout'.exc = "ValueError" /\ sent' = <<>>
            ELSE /\ Len(sent') = 1
                 /\ sent'[1].select = wanted
                 /\ qout'.exc # "ValueError"
                 /\ qout'.exc = "none" => qout'.count = Len(qout'.rows)]_vars

C19_Witness ==
    /\ qout.op = "count"
    /\ qout.exc = "none"
    /\ qout.count = 2
    /\ query.select_fields = <<"y", "x">>
    /\ type_props = <<"x", "y">>
    /\ sent # <<>>
    /\ sent[1].select = <<"y">>

\* the wire mnemonic of each comparison helper
Mnemonic(h) ==
    CASE h = "__eq__" -> "eq"
      [] h = "__ne__" -> "ne"
      [] h = "__gt__" -> "gt"
      [] h = "__ge__" -> "gte"
      [] h = "__lt__" -> "lt"
      [] h = "__le__" -> "lte"
      [] h = "like" -> "like"
      [] h = "is_in" -> "in"
      [] h = "is_null" -> "is_null"
      [] h = "is_not_null" -> "is_not_null"

\* C20: a comparison built through a field helper serializes with the field's
\* name, the helper's wire mnemonic, and a value key exactly when a value
\* other than None was given: 0, False, "" and [] are kept.
C20_ComparisonSerialization ==
    built.helper # "none" =>
        /\ built.dict.field = built.field
        /\ built.dict.op = Mnemonic(built.helper)
        /\ ("value" \in DOMAIN built.dict) = (built.arg # None)
        /\ "value" \in DOMAIN built.dict => built.dict.value = built.arg
        /\ DOMAIN built.dict \subseteq {"field", "op", "value"}

C20_Witness ==
    /\ built.helper = "__le__"
    /\ built.arg = "0"
    /\ built.dict = [field |-> built.field, op |-> "lte", value |-> "0"]

\* C21: an execute() that returns has called _execute_select once, with the
\* descriptor {select, from, where?, limit?} of the builder's state (from: the
\* handle's type id), and returns the rows it got, unchanged and in order.
C21_ExecuteDelegatesOnce ==
    [][(qout'.op = "execute" /\ qout'.exc = "none") =>
         /\ Len(sent') = 1
         /\ {"select", "from"} \subseteq DOMAIN sent'[1]
         /\ DOMAIN sent'[1] \subseteq {"select", "from", "where", "limit"}
         /\ sent'[1].from = QueryTypeId
         /\ sent'[1].select =
               IF ~query.select_all THEN query.select_fields
               ELSE IF type_props # <<>> THEN type_props ELSE <<"*">>
         /\ ("where" \in DOMAIN sent'[1]) = (query.conditions # <<>>)
         /\ "limit" \in DOMAIN sent'[1] => sent'[1].limit = query.limit_value
         /\ qout'.rows = qout'.got]_vars

C21_Witness ==
    /\ qout.op = "execute"
    /\ qout.exc = "none"
    /\ qout.got = <<"r2", "r1">>
    /\ qout.rows = <<"r2", "r1">>
    /\ Len(sent) = 1
    /\ DOMAIN sent[1] = {"select", "from", "where", "limit"}

\* C22: execute() sends the value of the last limit(n) call, whatever n is, 0
\* included; the limit key is missing only when limit() was never called.
C22_LimitPassedThrough ==
    [][(qout'.op = "execute" /\ sent' # <<>>) =>
         /\ query.limit_value = None => "limit" \notin DOMAIN sent'[1]
         /\ query.limit_value # None =>
               /\ "limit" \in DOMAIN sent'[1]
               /\ sent'[1].limit = query.limit_value]_vars

-----------------------------------------------------------------------------
(* Properties of the type registry *)

\* thread t takes the step
Moved(t) == th'[t] # th[t] \/ ret'[t] # ret[t]

\* the handle registered under a name carries this id
HandleId(n) == handles[object_types[n]].id

\* a get_object_type(x) that found x uncached, fetched the metadata of x and
\* its property list, and registered it
GotFetched(t, x) ==
    /\ ret[t].op = "get"
    /\ ret[t].name = x
    /\ ret[t].fetched = x
    /\ ret[t].fail = "none"
    /\ ret[t].exc = "none"

\* C4: when the threads call get_object_type(X) for an uncached X at the same
\* time and each remote fetch succeeds, one handle only is ever built for X
\* and every call returns that handle (no clear_cache running).
C4_OneHandleForConcurrentGets ==
    \A x \in Names :
        /\ Cardinality({h \in 1..Len(handles) : handles[h].name = x}) <= 1
        /\ \A t \in Threads, u \in Threads :
              (GotFetched(t, x) /\ GotFetched(u, x)) =>
                  /\ ret[t].res # 0
                  /\ ret[t].res = ret[u].res
                  /\ ret[t].res = object_types[x]
                  /\ handles[ret[t].res].name = x

C4_Witness ==
    \E x \in Names :
        /\ GotFetched("t1", x)
        /\ GotFetched("t2", x)
        /\ ret["t1"].res # 0
        /\ ret["t1"].res = ret["t2"].res

\* C5: a name that is registered keeps its handle, and the handle its id and
\* fields: a later register_object_type of the name returns that very handle,
\* and the id and field list it is given go nowhere (the id index changes
\* only when a new handle's registration ends, the fields only by add_property).
C5_RegisterIdempotent ==
    [][/\ \A n \in Names :
            object_types[n] # 0 =>
                /\ object_types'[n] = object_types[n]
                /\ handles'[object_types[n]].id = HandleId(n)
                /\ handles'[object_types[n]].name = n
                /\ (handles'[object_types[n]].props # handles[object_types[n]].props
                      => \E t \in Threads : /\ th[t].pc = "add_append"
                                           /\ th[t].cls = object_types[n])
                /\ \A t \in Threads :
                      (Moved(t) /\ ret'[t].op = "register" /\ ret'[t].name = n)
                          => /\ ret'[t].exc = "none"
                             /\ ret'[t].res = object_types[n]
       /\ \A i \in Ids :
            id_to_name'[i] # id_to_name[i] =>
                \E t \in Threads :
                    /\ th[t].pc = "reg_id"
                    /\ th[t].oid = i
                    /\ id_to_name'[i] = th[t].name
                    /\ handles[th[t].cls].id = i
                    /\ object_types[th[t].name] = th[t].cls]_vars

C5_Witness ==
    \E t \in Threads :
        /\ ret[t].op = "register"
        /\ ret[t].res # 0
        /\ handles[ret[t].res].id # ret[t].oid
        /\ id_to_name[ret[t].oid] = None

LoadPcs == {"load_name", "load_name_lookup", "load_id", "load_id_name",
            "load_id_lookup", "load_fetch", "load_props"}

\* C7: when the remote lookup of an uncached name fails (transport error,
\* empty result, metadata without id or name), get_object_type returns None
\* without raising and load_object_type raises; the steps of either up to
\* there leave both registry maps as they are.
C7_GetSwallowsLoadRaises ==
    [][\A t \in Threads :
         /\ (Moved(t) /\ (th[t].pc \in LoadPcs \/ th'[t].pc \in LoadPcs))
               => UNCHANGED <<object_types, id_to_name, handles>>
         /\ (th[t].pc \in {"load_fetch", "load_props"} /\ th'[t].pc = "idle")
               => /\ ret'[t].fail # "none"
                  /\ ret'[t].res = 0
                  /\ IF th[t].op = "get"
                     THEN ret'[t].op = "get" /\ ret'[t].exc = "none"
                     ELSE ret'[t].op = "load" /\ ret'[t].exc # "none"]_vars

C7_Witness ==
    \E t \in Threads, u \in Threads :
        /\ ret[t].op = "get"
        /\ ret[t].fail = "transport"
        /\ ret[t].res = 0
        /\ ret[t].exc = "none"
        /\ ret[u].op = "load"
        /\ ret[u].fail = "transport"
        /\ ret[u].exc = "Exception"
        /\ \E n \in Names : object_types[n] # 0

\* clear_cache has emptied the by-name map and not yet the id index
PartialClear ==
    /\ \E t \in Threads : th[t].pc = "clear_id"
    /\ \E i \in Ids : id_to_name[i] # None

\* thread u takes a step of register/load/get/list that reads a registry map
ReadsRegistry(u) ==
    /\ Moved(u)
    /\ \/ th[u].pc \in {"get_lookup", "load_name", "load_name_lookup",
                        "load_id", "load_id_name", "load_id_lookup"}
       \/ th[u].pc = "idle" /\ th'[u].op \in {"get", "load"}
       \/ th[u].pc = "idle" /\ th'[u].pc = "idle" /\ ret'[u].op = "list"

\* C8: no thread running a registry operation reads the registry while
\* clear_cache has emptied one map and not the other.
C8_ClearIsAtomic ==
    [][PartialClear => \A u \in Threads : ~ReadsRegistry(u)]_vars

\* C23: a load by name whose search results hold a candidate of the requested
\* name registers and returns that candidate; the first candidate is taken
\* only when none has the requested name.
C23_ExactNamePreferred ==
    \A t \in Threads :
        (ret[t].op \in {"get", "load"} /\ ret[t].oid = None
           /\ ret[t].fail = "none") =>
            /\ ret[t].exact =>
                  /\ ret[t].res # 0
                  /\ handles[ret[t].res].name = ret[t].name
            /\ (~ret[t].exact /\ ret[t].fetched # None /\ ret[t].res # 0) =>
                  handles[ret[t].res].name = ret[t].fetched

\* where a call is once its remote lookup by name or id has returned
PostFetchPcs == {"load_props", "reg_lock", "reg_insert", "reg_id"}

\* thread t runs get_object_type(x) and has made the remote lookup by name
FetchedInGet(t, x) ==
    /\ th[t].op = "get"
    /\ th[t].reqName = x
    /\ th[t].pc \in PostFetchPcs

\* C24: when several threads run get_object_type for the same uncached name
\* at once, the remote lookup by name is made at most once for that name.
C24_OneFetchPerName ==
    \A x \in Names : \A t \in Threads, u \in Threads :
        (FetchedInGet(t, x) /\ FetchedInGet(u, x)) => t = u

\* C25: every step that changes registry state (an insertion by
\* register_object_type, clear_cache, the field list extension of
\* add_property) is made by the thread that holds the lock.
C25_MutationsUnderLock ==
    [][\A t \in Threads :
         (Moved(t) /\ <<object_types, id_to_name, handles>>'
                          # <<object_types, id_to_name, handles>>)
             => (cache_lock = t \/ cache_lock' = t)]_vars

\* C27: a handle get_object_type(name) returns has the requested name and is
\* cached under it.
C27_GetReturnsRequestedName ==
    \A t \in Threads :
        (ret[t].op = "get" /\ ret[t].res # 0) =>
            /\ handles[ret[t].res].name = ret[t].name
            /\ object_types[ret[t].name] = ret[t].res

\* C28: get_object_type never raises, clear_cache running or not: it returns
\* a handle or None.
C28_GetNeverRaises ==
    \A t \in Threads : ret[t].op = "get" => ret[t].exc = "none"

\* C29: a load by id X for which the server reports type X, and that returns
\* a handle, returns a handle of id X and leaves X in the id index, also
\* when the reported name is registered under another id.
C29_LoadByIdRecordsId ==
    [][\A t \in Threads :
         (/\ th[t].op = "load"
          /\ th[t].reqId # None
          /\ th[t].pc \in {"reg_lock", "reg_id"}
          /\ th[t].oid = th[t].reqId
          /\ th'[t].pc = "idle"
          /\ ret'[t].res # 0)
             => /\ handles'[ret'[t].res].id = th[t].reqId
                /\ id_to_name'[th[t].reqId] # None]_vars

-----------------------------------------------------------------------------
(* Properties of the edit session *)

\* the last commit() submitted the creates and the transport raised
CreateFailed ==
    /\ lastOp = "commit"
    /\ wire # <<>>
    /\ wire[1].kind = "create"
    /\ ~wire[1].ok

\* C1: when the create submission issued by commit() fails, commit() raises
\* and the creates buffer and the updates buffer hold exactly the entries they
\* held before the call, so get_edits() returns what it returned before, the
\* staged creates included.
C1_CreateFailureKeepsBuffers ==
    [][CreateFailed' =>
          /\ err' = "TransportError"
          /\ creates # <<>>
          /\ creates' = creates
          /\ updates' = updates
          /\ objs' = objs
          /\ dicts' = dicts
          /\ get_edits_value' = get_edits_value
          /\ Len(get_edits_value') >= Len(creates)]_vars

C1_Witness ==
    /\ CreateFailed
    /\ err = "TransportError"
    /\ creates # <<>>
    /\ updates # <<>>

\* C2: when every submission issued by commit() succeeds, both buffers are
\* empty when commit() returns and get_edits() has nothing to return.
C2_SuccessEmptiesBuffers ==
    (lastOp = "commit" /\ err = "none") =>
        /\ creates = <<>>
        /\ updates = <<>>
        /\ get_edits_value = <<>>

C2_Witness ==
    /\ lastOp = "commit"
    /\ err = "none"
    /\ Len(wire) = 2
    /\ results = {"creates", "updates"}

\* C3: with creates and updates both staged, a failure of the create
\* submission does not keep commit() from attempting the update submission.
C3_UpdateAttemptedAfterCreateFailure ==
    (CreateFailed /\ updates # <<>>) =>
        \E i \in 1..Len(wire) : wire[i].kind = "update"

\* the staged objects, creates first: what create()/edit() returned, in the
\* order get_edits() walks the buffers
StagedRefs == creates \o updates

\* the messages the transport was handed by the last commit(), in order
WireMessages ==
    IF wire = <<>> THEN <<>>
    ELSE IF Len(wire) = 1 THEN wire[1].messages
    ELSE wire[1].messages \o wire[2].messages

\* C11: an assignment handle.k = v on the object create()/edit() returned, made
\* while the object is staged, is in the object's message of get_edits(); and
\* what get_edits() returns and commit() submits are the properties the
\* handles have at that time.
C11_HandleIsBufferedEntry ==
    [][/\ lastOp' = "setattr" =>
            \A o \in 1..Len(objs), k \in Keys, v \in Vals :
                setattr(o, k, v) =>
                    \A i \in 1..Len(StagedRefs) :
                        StagedRefs[i] = o =>
                            /\ k \in DOMAIN get_edits_value'[i].properties
                            /\ get_edits_value'[i].properties[k] = v
       /\ lastOp' = "get_edits" =>
            /\ Len(edits_out') = Len(StagedRefs)
            /\ \A i \in 1..Len(StagedRefs) :
                  edits_out'[i].properties = dicts[objs[StagedRefs[i]].props]
       /\ (lastOp' = "commit" /\ err' = "none") =>
            /\ Len(WireMessages') = Len(StagedRefs)
            /\ \A i \in 1..Len(StagedRefs) :
                  WireMessages'[i].properties = dicts[objs[StagedRefs[i]].props]]_vars

\* the one object ever staged got its property from an assignment: its mapping
\* is not the caller's, and neither kwargs nor a copy can have given it k1 = 1
C11_Witness ==
    /\ lastOp = "setattr"
    /\ Len(objs) = 1
    /\ StagedRefs = <<1>>
    /\ objs[1].props \notin callerDicts
    /\ get_edits_value[1].properties = [k \in {"k1"} |-> 1]

\* C12: get_edits() returns the message of every staged create, in staging
\* order, then the message of every staged update, in staging order; it makes
\* no transport call and leaves the buffers and the staged objects as they are.
C12_GetEditsIsReadOnly ==
    [][lastOp' = "get_edits" =>
         /\ Len(edits_out') = Len(creates) + Len(updates)
         /\ \A i \in 1..Len(creates) : edits_out'[i] = to_message(creates[i])
         /\ \A j \in 1..Len(updates) :
               edits_out'[Len(creates) + j] = to_message(updates[j])
         /\ wire' = <<>>
         /\ err' = "none"
         /\ UNCHANGED <<creates, updates, objs, dicts>>]_vars

C12_Witness ==
    /\ lastOp = "get_edits"
    /\ creates # <<>>
    /\ updates # <<>>
    /\ edits_out = <<to_message(creates[1]), to_message(updates[1])>>
    /\ edits_out[1] # edits_out[2]

\* the transport calls of one kind made by the last commit()
CallsOfKind(kind) == {i \in 1..Len(wire) : wire[i].kind = kind}

\* C13: commit() makes at most one create call, holding every staged create in
\* order, and at most one update call, holding every staged update in order,
\* the create call first; an empty buffer's kind is not submitted; when
\* commit() returns, the record has a key for exactly the kinds submitted (an
\* empty session: no call, empty record).
C13_OneBatchPerKind ==
    [][lastOp' = "commit" =>
         /\ Cardinality(CallsOfKind("create")') <= 1
         /\ Cardinality(CallsOfKind("update")') <= 1
         /\ CallsOfKind("create")' \cup CallsOfKind("update")' = 1..Len(wire')
         /\ \A i \in CallsOfKind("create")', j \in CallsOfKind("update")' : i < j
         /\ \A i \in CallsOfKind("create")' :
               creates # <<>> /\ wire'[i].messages = Messages(creates)
         /\ \A j \in CallsOfKind("update")' :
               updates # <<>> /\ wire'[j].messages = Messages(updates)
         /\ err' = "none" =>
               /\ ("creates" \in results') = (creates # <<>>)
               /\ ("creates" \in results') = (CallsOfKind("create")' # {})
               /\ ("updates" \in results') = (updates # <<>>)
               /\ ("updates" \in results') = (CallsOfKind("update")' # {})
               /\ results' \subseteq {"creates", "updates"}
         /\ (creates = <<>> /\ updates = <<>>) =>
               wire' = <<>> /\ results' = {} /\ err' = "none"]_vars

C13_Witness ==
    /\ lastOp = "commit"
    /\ err = "none"
    /\ Len(wire) = 2
    /\ wire[1].kind = "create"
    /\ wire[2].kind = "update"
    /\ wire[1].messages # <<>>
    /\ wire[2].messages # <<>>
    /\ results = {"creates", "updates"}

\* the last commit() sent the creates, which were accepted, then the
\* updates, which failed
PartialFailure(w) == Len(w) = 2 /\ w[1].ok /\ ~w[2].ok

\* C26: a commit() whose create call succeeds and whose update call fails
\* clears neither buffer; the commit() that follows submits the same creates
\* once more.
C26_RetryResubmitsCreates ==
    [][/\ (lastOp' = "commit" /\ PartialFailure(wire')) =>
             /\ err' = "TransportError"
             /\ creates # <<>>
             /\ creates' = creates
             /\ updates' = updates
       /\ (lastOp = "commit" /\ PartialFailure(wire) /\ lastOp' = "commit") =>
             /\ wire' # <<>>
             /\ wire'[1].kind = "create"
             /\ wire'[1].messages = wire[1].messages]_vars

C26_Witness ==
    /\ lastOp = "commit"
    /\ PartialFailure(wire)
    /\ err = "TransportError"
    /\ creates # <<>>
    /\ updates # <<>>
    /\ Messages(creates) = wire[1].messages
    /\ Messages(updates) = wire[2].messages

\* C30: create() leaves the caller's mappings as they are, and an assignment
\* on one staged object changes the properties of no other staged object.
C30_StagedEntriesOwnProperties ==
    [][/\ lastOp' = "create" =>
            \A d \in callerDicts : dicts'[d] = dicts[d]
       /\ lastOp' = "setattr" =>
            \A o \in 1..Len(objs), k \in Keys, v \in Vals :
                setattr(o, k, v) =>
                    \A o2 \in 1..Len(objs) :
                        o2 # o => dicts'[objs[o2].props] = dicts[objs[o2].props]]_vars

\* C9: edit() on a mapping or staged object whose elementId is missing or empty
\* raises a usage error, issues no transport call and leaves both buffers as
\* they were; with a non-empty elementId it appends exactly one entry carrying
\* that elementId to the updates and leaves the creates as they were.
C9_EditRequiresElementId ==
    [][(lastOp' = "edit" /\ lastArg'.shape \in {"raw", "nested", "staged"}) =>
          IF ~lastArg'.hasElem \/ lastArg'.elem \in {None, ""}
          THEN /\ err' = "ValueError"
               /\ wire' = <<>>
               /\ creates' = creates
               /\ updates' = updates
               /\ objs' = objs
               /\ dicts' = dicts
          ELSE /\ err' = "none"
               /\ wire' = <<>>
               /\ creates' = creates
               /\ Len(updates') = Len(updates) + 1
               /\ SubSeq(updates', 1, Len(updates)) = updates
               /\ updates'[Len(updates')] = Len(objs')
               /\ Len(objs') = Len(objs) + 1
               /\ objs'[Len(objs')].element_id = lastArg'.elem]_vars

C9_Witness ==
    /\ lastOp = "edit"
    /\ err = "ValueError"
    /\ lastArg.shape = "nested"
    /\ lastArg.hasElem
    /\ lastArg.elem = ""
    /\ updates # <<>>

\* C10: whatever the accepted input shape of create(), the entry appended to
\* the creates carries no elementId, and no create message submitted by
\* commit() has an elementId key.
C10_CreatesCarryNoElementId ==
    /\ \A i \in 1..Len(creates) : ~Truthy(objs[creates[i]].element_id)
    /\ \A i \in 1..Len(wire) :
          wire[i].kind = "create" =>
              \A j \in 1..Len(wire[i].messages) :
                  "elementId" \notin DOMAIN wire[i].messages[j]

====
